---- MODULE Spec2Model ----
(***************************************************************************)
(* Session synchronization engine of the inventory tracker.                *)
(*                                                                         *)
(* The model covers the Firestore adapter (services/geminiService.ts:      *)
(* initFirebase, subscribeToSession, saveToCloud, disconnectFirebase) and  *)
(* the App component's handlers (App.tsx) in its two layouts: the "main"   *)
(* layout (App.tsx:55-817) and the "dashboard" layout (App.tsx:833-1298).  *)
(* Every device runs one process; all devices share the remote documents.  *)
(***************************************************************************)
EXTENDS Integers, Sequences, FiniteSets, TLC

\* ------------------------------------------------------------------ bounds
Devices == {"d1", "d2"}
MaxProbes == 1        \* existence probes (docRef.get) in flight per device
MaxPushes == 2        \* saveToCloud writes in flight per device
MaxQueued == 1        \* the same, in the specifications that also import or audit

\* ------------------------------------------------------------- JS values
Null == "null"             \* JavaScript null
Undefined == "undefined"   \* an absent document field

Variants == {"main", "dashboard"}

\* session ids as typed by the operator, and String.prototype.toUpperCase
SessionInputs == {"s1", "S1", "S.2"}
ToUpperCase(s) == CASE s = "s1" -> "S1"
                    [] s = "S1" -> "S1"
                    [] s = "S.2" -> "S.2"
                    [] s = "S_2" -> "S_2"
                    [] OTHER -> s

\* getInventoryRef: trim, replace "/" and "." by "_", upper-case
SafeId(s) == CASE ToUpperCase(s) = "S.2" -> "S_2"
               [] OTHER -> ToUpperCase(s)

DocIds == {SafeId(s) : s \in SessionInputs}

\* --------------------------------------------------------- inventory maps
Parts == <<"", "P1", "P2">>      \* the keys of the maps, in key order
PartSet == {Parts[i] : i \in 1..Len(Parts)}

EmptyMap == [p \in {} |-> Null]

\* { ...a, ...b } on plain objects
Spread(a, b) ==
  [k \in DOMAIN a \cup DOMAIN b |-> IF k \in DOMAIN b THEN b[k] ELSE a[k]]

\* delete that empties the map
DeleteKeyDropsAll(m, k) == IF k \in DOMAIN m THEN EmptyMap ELSE m

\* delete obj[k]
DeleteKey(m, k) == [p \in DOMAIN m \ {k} |-> m[p]]

\* ------------------------------------------------------------------ JSON
\* A json field is text: the serialization of an object, text that
\* JSON.parse rejects, or the field is absent.
JsonObj(kv) == [t |-> "obj", kv |-> kv]
JsonGarbage == [t |-> "garbage", kv |-> <<>>]
JsonAbsent == [t |-> "absent", kv |-> <<>>]

RECURSIVE StringifyFrom(_, _)
StringifyFrom(m, i) ==
  IF i > Len(Parts) THEN <<>>
  ELSE (IF Parts[i] \in DOMAIN m THEN << <<Parts[i], m[Parts[i]]>> >> ELSE <<>>)
       \o StringifyFrom(m, i + 1)

\* JSON.stringify(inventory): the entries, key by key
JSONstringify(m) == JsonObj(StringifyFrom(m, 1))

\* JSON.parse: ok = FALSE is a SyntaxError
JSONparse(j) ==
  IF j.t = "obj"
  THEN [ok |-> TRUE,
        val |-> [p \in {j.kv[i][1] : i \in 1..Len(j.kv)} |->
                   LET i == CHOOSE n \in 1..Len(j.kv) :
                              /\ j.kv[n][1] = p
                              /\ \A n2 \in 1..Len(j.kv) : j.kv[n2][1] = p => n2 <= n
                   IN j.kv[i][2]]]
  ELSE [ok |-> FALSE, val |-> EmptyMap]

\* ------------------------------------------------------ remote documents
NoDoc == [exists |-> FALSE, json |-> JsonAbsent, adminPin |-> Undefined,
          updated |-> Undefined]

\* docRef.set(fields, { merge: true }): creates the document if missing and
\* overwrites only the fields given
SetMerge(d, fields) ==
  [exists |-> TRUE,
   json |-> IF "json" \in DOMAIN fields THEN fields.json ELSE d.json,
   adminPin |-> IF "adminPin" \in DOMAIN fields THEN fields.adminPin ELSE d.adminPin,
   updated |-> IF "updated" \in DOMAIN fields THEN fields.updated ELSE d.updated]

Now == "ts"   \* new Date().toISOString(), the instant abstracted away

\* --------------------------------------------------------- bin hierarchy
\* A bin code is text: a sequence of characters.
WhiteSpace == {" ", "\t"}
DigitChars == {"0", "1", "2", "3", "4", "5", "6", "7", "8", "9"}
UpperChars == {"A", "B", "C", "D", "E", "F", "G", "H", "I", "J", "K", "L", "M",
               "N", "O", "P", "Q", "R", "S", "T", "U", "V", "W", "X", "Y", "Z"}

\* String.prototype.toUpperCase on the letters the inputs use
UpperOf(c) == CASE c = "a" -> "A" [] c = "d" -> "D" [] c = "e" -> "E"
                [] c = "g" -> "G" [] c = "i" -> "I" [] c = "k" -> "K"
                [] c = "n" -> "N" [] c = "r" -> "R" [] c = "s" -> "S"
                [] c = "t" -> "T" [] c = "u" -> "U" [] OTHER -> c

UpperCaseOf(s) == [i \in 1..Len(s) |-> UpperOf(s[i])]

RECURSIVE TrimStart(_)
TrimStart(s) ==
  IF s # <<>> /\ Head(s) \in WhiteSpace THEN TrimStart(Tail(s)) ELSE s

RECURSIVE TrimEnd(_)
TrimEnd(s) ==
  IF s # <<>> /\ s[Len(s)] \in WhiteSpace
  THEN TrimEnd(SubSeq(s, 1, Len(s) - 1)) ELSE s

\* String.prototype.trim
Trim(s) == TrimEnd(TrimStart(s))

\* String.prototype.startsWith and includes
StartsWith(s, prefix) ==
  Len(s) >= Len(prefix) /\ SubSeq(s, 1, Len(prefix)) = prefix

Includes(s, part) ==
  \E i \in 1..(Len(s) - Len(part) + 1) : SubSeq(s, i, i + Len(part) - 1) = part

\* s.split(' ')[0]
SplitFirst(s) ==
  LET at == {i \in 1..Len(s) : s[i] = " "} IN
    IF at = {} THEN s
    ELSE SubSeq(s, 1, (CHOOSE i \in at : \A j \in at : i <= j) - 1)

\* the texts getBinHierarchy compares with and returns
Unassigned == <<"U", "N", "A", "S", "S", "I", "G", "N", "E", "D">>
NoLocation == <<"N", "O", "_", "L", "O", "C", "A", "T", "I", "O", "N">>
DataCheck == <<"D", "A", "T", "A", "_", "C", "H", "E", "C", "K">>
BadData == <<"B", "A", "D", "_", "D", "A", "T", "A">>
Misc == <<"M", "I", "S", "C">>
General == <<"G", "E", "N", "E", "R", "A", "L">>
Areas == <<"A", "R", "E", "A", "S">>
AreaPrefix == <<"A", "R", "E", "A">>
Ng == <<"N", "G">>
Ng1 == <<"N", "G", "1">>

\* the words of the description test
DescriptionWords ==
  {<<"A", "L", "T", "E", "R", "N", "A", "T", "O", "R">>,
   <<"A", "S", "S", "Y">>,
   <<"K", "I", "T">>,
   <<"S", "E", "T">>,
   <<"H", "O", "L", "D", "E", "R">>,
   <<"B", "O", "L", "T">>,
   <<"N", "U", "T">>,
   <<"W", "A", "S", "H", "E", "R">>,
   <<"C", "L", "I", "P">>,
   <<"S", "E", "N", "S", "O", "R">>}

\* bin.match(/^(\d{3})/) finds a match
NumericMatch(bin) ==
  Len(bin) >= 3 /\ \A i \in 1..3 : bin[i] \in DigitChars

\* bin.match(/^\d{3}([A-Z])/) finds a match
SubMatch(bin) == NumericMatch(bin) /\ Len(bin) >= 4 /\ bin[4] \in UpperChars

\* the description test of rule 4
LooksLikeDescription(bin) ==
  \/ Len(bin) > 8
  \/ Includes(bin, <<" ">>)
  \/ \E w \in DescriptionWords : Includes(bin, w)

Hierarchy(group, subgroup) ==
  [threw |-> FALSE, group |-> group, subgroup |-> subgroup]

\* a call that ended in a TypeError
Threw == [threw |-> TRUE, group |-> <<>>, subgroup |-> <<>>]

\* the first line without trim()
NormalizeNoTrim(binRaw) ==
  IF binRaw # <<>> THEN UpperCaseOf(binRaw) ELSE <<"0">>

\* binRaw ? binRaw.trim().toUpperCase() : '0'
Normalize(binRaw) ==
  IF binRaw # <<>> THEN UpperCaseOf(Trim(binRaw)) ELSE <<"0">>

\* rule 1 reading subMatch[1] without testing subMatch
NumericZoneUnchecked(bin) ==
  IF SubMatch(bin) THEN Hierarchy(SubSeq(bin, 1, 3), SubSeq(bin, 1, 4)) ELSE Threw

\* rule 1 once the prefix starts with 2, 3 or 6
NumericZone(bin) ==
  Hierarchy(SubSeq(bin, 1, 3),
            IF SubMatch(bin) THEN SubSeq(bin, 1, 4) ELSE SubSeq(bin, 1, 3))

\* rules 2 to 5 with the description test ahead of the NG and AREA rules
NamedZoneDescriptionFirst(bin) ==
  IF LooksLikeDescription(bin) THEN Hierarchy(DataCheck, BadData)
  ELSE IF StartsWith(bin, Ng) THEN Hierarchy(Ng, Ng1)
  ELSE IF StartsWith(bin, AreaPrefix) THEN Hierarchy(Areas, SplitFirst(bin))
  ELSE Hierarchy(Misc, General)

\* rules 2 to 5: NG, AREA, description, fallback
NamedZone(bin) ==
  IF StartsWith(bin, Ng) THEN Hierarchy(Ng, Ng1)
  ELSE IF StartsWith(bin, AreaPrefix) THEN Hierarchy(Areas, SplitFirst(bin))
  ELSE IF LooksLikeDescription(bin) THEN Hierarchy(DataCheck, BadData)
  ELSE Hierarchy(Misc, General)

\* getBinHierarchy(binRaw)
GetBinHierarchy(binRaw) ==
  LET bin == Normalize(binRaw) IN
    IF bin = <<>> \/ bin = <<"0">> \/ bin = Unassigned
    THEN Hierarchy(NoLocation, <<"0">>)
    ELSE IF NumericMatch(bin) /\ bin[1] \in {"2", "3", "6"}
         THEN NumericZone(bin)
         ELSE NamedZone(bin)

\* the pieces the bin codes of the classifier's specification are made of
BinPieces ==
  {<<>>,
   <<" ">>,
   <<"\t">>,
   <<"0">>,
   <<"u", "n", "a", "s", "s", "i", "g", "n", "e", "d">>,
   <<"U", "n", "A", "s", "s", "i", "g", "n", "e", "d">>,
   <<"3", "0", "7">>,
   <<"1", "0", "7">>,
   <<"6">>,
   <<"A">>,
   <<"a">>,
   <<"n", "g">>,
   <<"N", "G", "1", "-", "1", "0">>,
   <<"a", "r", "e", "a">>,
   <<"A", "R", "E", "A", "-", "3", "0", "0">>,
   <<"k", "i", "t">>,
   <<"X", "-", "9">>}

Pads == {<<>>, <<" ">>}

\* bin codes: up to three pieces, with or without surrounding blanks
BinInputs ==
  {l \o a \o b \o c \o r :
     l \in Pads, a \in BinPieces, b \in BinPieces, c \in BinPieces, r \in Pads}

\* ------------------------------------------------------- zone hierarchy
\* Object.values(inventory): the items in key order
InventoryList(inv) ==
  LET keys == SelectSeq(Parts, LAMBDA k : k \in DOMAIN inv)
  IN [i \in 1..Len(keys) |-> inv[keys[i]]]

\* item.bin ? item.bin.toUpperCase() : '0'
RawBin(item) == IF item.bin # <<>> THEN UpperCaseOf(item.bin) ELSE <<"0">>

\* arr.includes(x)
SeqIncludes(arr, x) == \E i \in 1..Len(arr) : arr[i] = x

\* the forEach body listing the raw bin again when the subgroup has it
ZoneAddListsAgain(tree, item) ==
  LET rawBin == RawBin(item)
      h == GetBinHierarchy(rawBin)
      old == IF h.group \in DOMAIN tree
             THEN tree[h.group]
             ELSE [label |-> h.group, totalItems |-> 0, subgroups |-> EmptyMap]
      bins == IF h.subgroup \in DOMAIN old.subgroups
              THEN old.subgroups[h.subgroup] ELSE <<>>
      new == [old EXCEPT
                !.totalItems = @ + 1,
                !.subgroups = [k \in DOMAIN old.subgroups \cup {h.subgroup} |->
                                 IF k = h.subgroup THEN Append(bins, rawBin)
                                 ELSE old.subgroups[k]]]
  IN [g \in DOMAIN tree \cup {h.group} |-> IF g = h.group THEN new ELSE tree[g]]

\* the forEach body of the zoneHierarchy memo for one item
ZoneAdd(tree, item) ==
  LET rawBin == RawBin(item)
      h == GetBinHierarchy(rawBin)
      old == IF h.group \in DOMAIN tree
             THEN tree[h.group]
             ELSE [label |-> h.group, totalItems |-> 0, subgroups |-> EmptyMap]
      bins == IF h.subgroup \in DOMAIN old.subgroups
              THEN old.subgroups[h.subgroup] ELSE <<>>
      new == [old EXCEPT
                !.totalItems = @ + 1,
                !.subgroups = [k \in DOMAIN old.subgroups \cup {h.subgroup} |->
                                 IF k = h.subgroup
                                 THEN IF SeqIncludes(bins, rawBin)
                                      THEN bins ELSE Append(bins, rawBin)
                                 ELSE old.subgroups[k]]]
  IN [g \in DOMAIN tree \cup {h.group} |-> IF g = h.group THEN new ELSE tree[g]]

\* the zoneHierarchy memo: the tree after the first n items of the list
RECURSIVE ZoneTree(_, _)
ZoneTree(list, n) ==
  IF n = 0 THEN EmptyMap ELSE ZoneAdd(ZoneTree(list, n - 1), list[n])

ZoneHierarchy(inventoryList) == ZoneTree(inventoryList, Len(inventoryList))

\* the subgroups of a tree, as <<group, subgroup>>
SubgroupsOf(tree) ==
  UNION {{<<g, k>> : k \in DOMAIN tree[g].subgroups} : g \in DOMAIN tree}

\* the bins listed under a set of subgroups
BinsUnder(tree, subs) ==
  UNION {{tree[gk[1]].subgroups[gk[2]][i] :
            i \in 1..Len(tree[gk[1]].subgroups[gk[2]])} : gk \in subs}



\* ------------------------------------------------------------------ state
VARIABLES
  variant,      \* which App layout this build renders
  doc,          \* remote store: document id -> document
  db,           \* per device: module variable db is set
  authed,       \* per device: auth.currentUser is set
  initJob,      \* per device: initFirebase promise still pending
  unsubscribe,  \* per device: module variable unsubscribe (the listener)
  fresh,        \* per device: the listener has a snapshot to deliver
  probes,       \* per device: docRef.get() promises not yet settled
  pushQ,        \* per device: saveToCloud writes not yet settled
  inventory,    \* per device: App state `inventory`
  cloud,        \* per device: App state `cloud`
  showConnect,  \* per device: ConnectModal is open
  importJob,    \* per device: FileReader still reading, with its closure
  fileDialog,   \* per device: file picker opened by handleImportClick
  audit,        \* per device: AuditView mounted, with its auditList
  saved,        \* per device: localStorage zeevra_session_id and zeevra_pin
  binRaw,       \* the bin code handed to getBinHierarchy
  hierarchy,    \* what getBinHierarchy returned for it
  zoneHierarchy, \* per device: the zoneHierarchy memo of the last render
  persist,      \* per device: the persistence effect's timeout (handler) with
                \* the inventory of its closure, and localStorage zeevra_v32_data
  settled       \* per device: the branch taken by the probe of the connect
                \* that registered the present listener ("none" until it runs)

vars == <<variant, doc, db, authed, initJob, unsubscribe, fresh, probes, pushQ,
          inventory, cloud, showConnect, importJob, fileDialog, audit, saved,
          persist, settled, binRaw, hierarchy, zoneHierarchy>>

svcVars == <<db, authed, initJob, unsubscribe, fresh, probes, settled>>
uiVars == <<showConnect, importJob, fileDialog, audit, saved>>

\* useState<CloudState> initial value
\* no call of getBinHierarchy has returned
NotClassified == [threw |-> FALSE, group |-> <<>>, subgroup |-> <<>>]

CloudInit == [connected |-> FALSE, sessionId |-> "", syncing |-> FALSE,
              error |-> Null, isReadOnly |-> FALSE]

NoWatch == [active |-> FALSE, sid |-> "", pin |-> "", alive |-> FALSE]
\* retries is the loop variable of the sign-in loop of initFirebase
NoJob == [kind |-> "none", sid |-> "", pin |-> "", retries |-> 0]
BootJob == [kind |-> "boot", sid |-> "", pin |-> "", retries |-> 3]
NoImport == [st |-> "none", inv |-> EmptyMap, c |-> CloudInit]
NoAudit == [on |-> FALSE, list |-> EmptyMap]
\* no timeout of the persistence effect pending
NoHandler == [pending |-> FALSE, inventory |-> EmptyMap]

\* the persistence effect re-running without clearing the pending timeout,
\* the earlier timeout being the one that writes
PersistenceEffectKeepsPending(cur, inv) ==
  IF cur.handler.pending THEN cur
  ELSE [cur EXCEPT !.handler = [pending |-> TRUE, inventory |-> inv]]

\* the persistence effect after setInventory(inv): the cleanup clears the
\* pending timeout and a new one is set, with inv in its closure
PersistenceEffect(cur, inv) ==
  [cur EXCEPT !.handler = [pending |-> TRUE, inventory |-> inv]]

NoSaved == [sid |-> "", pin |-> ""]

\* ------------------------------------------------------- App callbacks
\* onUpdate passed to subscribeToSession, CloudState part
OnUpdateCloud(c, isReadOnly) ==
  [c EXCEPT !.connected = TRUE, !.syncing = FALSE, !.error = Null,
            !.isReadOnly = isReadOnly]

\* onError passed to subscribeToSession
OnError(c, msg) ==
  IF variant = "main"
  THEN [c EXCEPT !.connected = FALSE, !.error = msg]
  ELSE [c EXCEPT !.error = msg]

\* ------------------------------------------------------- snapshot handler
\* SecurityCheck without the test for an empty adminPin
SecurityCheckNoEmptyTest(data, pin) ==
  IF data.adminPin # Undefined
  THEN (IF data.adminPin # pin THEN TRUE ELSE FALSE)
  ELSE FALSE

\* the security check of the onSnapshot callback
SecurityCheck(data, pin) ==
  IF data.adminPin # Undefined /\ data.adminPin # ""
  THEN (IF data.adminPin # pin THEN TRUE ELSE FALSE)
  ELSE FALSE

\* SnapshotResult with the parse failure passing the computed flag on
SnapshotResultParseErrorKeepsFlag(d, pin) ==
  IF d.exists
  THEN LET isReadOnly == SecurityCheck(d, pin) IN
       IF d.json.t # "absent"
       THEN LET parsed == JSONparse(d.json) IN
            IF parsed.ok
            THEN [data |-> parsed.val, isReadOnly |-> isReadOnly]
            ELSE [data |-> EmptyMap, isReadOnly |-> isReadOnly]
       ELSE [data |-> EmptyMap, isReadOnly |-> isReadOnly]
  ELSE [data |-> EmptyMap, isReadOnly |-> FALSE]

\* the listener treating a missing document as read-only
SnapshotResultMissingReadOnly(d, pin) ==
  IF d.exists
  THEN LET isReadOnly == SecurityCheck(d, pin) IN
       IF d.json.t # "absent"
       THEN LET parsed == JSONparse(d.json) IN
            IF parsed.ok
            THEN [data |-> parsed.val, isReadOnly |-> isReadOnly]
            ELSE [data |-> EmptyMap, isReadOnly |-> TRUE]
       ELSE [data |-> EmptyMap, isReadOnly |-> isReadOnly]
  ELSE [data |-> EmptyMap, isReadOnly |-> TRUE]

\* what the onSnapshot callback passes to onUpdate for a document
SnapshotResult(d, pin) ==
  IF d.exists
  THEN LET isReadOnly == SecurityCheck(d, pin) IN
       IF d.json.t # "absent"
       THEN LET parsed == JSONparse(d.json) IN
            IF parsed.ok
            THEN [data |-> parsed.val, isReadOnly |-> isReadOnly]
            ELSE [data |-> EmptyMap, isReadOnly |-> TRUE]
       ELSE [data |-> EmptyMap, isReadOnly |-> isReadOnly]
  ELSE [data |-> EmptyMap, isReadOnly |-> FALSE]

\* listeners of a document get a snapshot after a write to it
Notify(id) ==
  [e \in Devices |->
     IF unsubscribe[e].active /\ unsubscribe[e].alive /\ unsubscribe[e].sid = id
     THEN TRUE ELSE fresh[e]]

\* --------------------------------------------------- subscribeToSession
NetworkUnavailable == "Network unavailable. Working offline."

Probe(sid, pin) == [sid |-> sid, pin |-> pin, st |-> "pending",
                    exists |-> FALSE, adminPin |-> Undefined, code |-> ""]

\* subscribeToSession once db is set: tear down the previous listener,
\* start the existence probe, register the new listener
SubscribeCore(d, sid, pin, c0) ==
  /\ unsubscribe' = [unsubscribe EXCEPT
                       ![d] = [active |-> TRUE, sid |-> SafeId(sid),
                               pin |-> pin, alive |-> TRUE]]
  /\ probes' = [probes EXCEPT ![d] = @ \cup {Probe(SafeId(sid), pin)}]
  /\ fresh' = [fresh EXCEPT ![d] = TRUE]
  /\ settled' = [settled EXCEPT ![d] = "none"]
  /\ cloud' = [cloud EXCEPT ![d] = c0]

\* subscribeToSession(sid, pin, onUpdate, onError); c0 is the CloudState
\* the caller has set, sdkOnline is whether initFirebase gets past its
\* checks of window.firebase and navigator.onLine
SubscribeToSession(d, sid, pin, c0, sdkOnline) ==
  IF ~db[d]
  THEN IF sdkOnline
       THEN \* initFirebase sets db before it awaits the sign-in
            /\ db' = [db EXCEPT ![d] = TRUE]
            /\ initJob' = [initJob EXCEPT
                             ![d] = [kind |-> "connect", sid |-> sid, pin |-> pin,
                                     retries |-> 3]]
            /\ cloud' = [cloud EXCEPT ![d] = c0]
            /\ UNCHANGED <<authed, unsubscribe, fresh, probes, settled>>
       ELSE \* initFirebase resolves false at once
            /\ cloud' = [cloud EXCEPT ![d] = OnError(c0, NetworkUnavailable)]
            /\ UNCHANGED svcVars
  ELSE /\ SubscribeCore(d, sid, pin, c0)
       /\ UNCHANGED <<db, authed, initJob>>

\* the sign-in loop retrying once more than it has retries
SignInFailRetriesAgain(d) ==
  /\ initJob[d].kind # "none"
  /\ initJob[d].retries > 0
  /\ initJob' = [initJob EXCEPT ![d].retries = @ - 1]
  /\ UNCHANGED <<variant, binRaw, hierarchy, zoneHierarchy, persist, doc, db,
                 authed, unsubscribe, fresh,
                 probes, settled, pushQ, inventory, cloud, uiVars>>

\* signInAnonymously() is rejected with retries left after the decrement:
\* the loop waits one second and attempts again
SignInFail(d) ==
  /\ initJob[d].kind # "none"
  /\ initJob[d].retries > 1
  /\ initJob' = [initJob EXCEPT ![d].retries = @ - 1]
  /\ UNCHANGED <<variant, binRaw, hierarchy, zoneHierarchy, persist, doc, db,
                 authed, unsubscribe, fresh,
                 probes, settled, pushQ, inventory, cloud, uiVars>>

\* the pending initFirebase promise settles. It resolves true when the
\* sign-in attempt in flight succeeds; it resolves false when
\* setPersistence is rejected (before the first attempt, retries = 3) or
\* when the attempt that fails is the last (retries = 1, decremented to 0)
InitResolve(d, success) ==
  /\ initJob[d].kind # "none"
  /\ success \/ initJob[d].retries \in {1, 3}
  /\ (initJob[d].kind = "connect" /\ success) => Cardinality(probes[d]) < MaxProbes
  /\ IF initJob[d].kind = "connect"
     THEN IF success
          THEN /\ SubscribeCore(d, initJob[d].sid, initJob[d].pin, cloud[d])
               /\ initJob' = [initJob EXCEPT ![d] = NoJob]
               /\ authed' = [authed EXCEPT ![d] = TRUE]
               /\ UNCHANGED db
          ELSE /\ cloud' = [cloud EXCEPT ![d] = OnError(@, NetworkUnavailable)]
               /\ initJob' = [initJob EXCEPT ![d] = NoJob]
               /\ UNCHANGED <<db, authed, unsubscribe, fresh, probes, settled>>
     ELSE /\ initJob' = [initJob EXCEPT ![d] = NoJob]
          /\ authed' = [authed EXCEPT ![d] = success]
          /\ UNCHANGED <<db, unsubscribe, fresh, probes, settled, cloud>>
  /\ UNCHANGED <<variant, binRaw, hierarchy, zoneHierarchy, persist, doc, pushQ, inventory, uiVars>>

\* ---------------------------------------------------- existence probe
ProbeCodes == {"permission-denied", "unavailable"}

\* docRef.get() settles: it read the document, or it failed with a code
ProbeGet(d, p, code) ==
  /\ p \in probes[d]
  /\ p.st = "pending"
  /\ probes' = [probes EXCEPT ![d] = (@ \ {p}) \cup
       {IF code = ""
        THEN [p EXCEPT !.st = "got", !.exists = doc[p.sid].exists,
                       !.adminPin = doc[p.sid].adminPin]
        ELSE [p EXCEPT !.st = "err", !.code = code]}]
  /\ UNCHANGED <<variant, binRaw, hierarchy, zoneHierarchy, persist, doc, db,
                 authed, initJob, unsubscribe, fresh, settled,
                 pushQ, inventory, cloud, uiVars>>

\* ProbeWrite with the legacy test dropped: every existing session is claimed
ProbeWriteAlwaysClaim(p) ==
  IF p.st = "got"
  THEN IF ~p.exists
       THEN {[json |-> JSONstringify(EmptyMap), updated |-> Now, adminPin |-> p.pin]}
       ELSE {[adminPin |-> p.pin]}
  ELSE IF p.code = "permission-denied"
       THEN {[updated |-> Now]}
       ELSE {}

\* ProbeWrite with the claim reusing the payload of the creation
ProbeWriteClaimResetsJson(p) ==
  IF p.st = "got"
  THEN IF ~p.exists \/ p.adminPin = Undefined \/ p.adminPin = ""
       THEN {[json |-> JSONstringify(EmptyMap), updated |-> Now, adminPin |-> p.pin]}
       ELSE {}
  ELSE IF p.code = "permission-denied"
       THEN {[updated |-> Now]}
       ELSE {}

\* the fields the probe's continuation writes with set(..., { merge: true }),
\* or none
ProbeWrite(p) ==
  IF p.st = "got"
  THEN IF ~p.exists
       THEN {[json |-> JSONstringify(EmptyMap), updated |-> Now, adminPin |-> p.pin]}
       ELSE IF p.adminPin = Undefined \/ p.adminPin = ""
            THEN {[adminPin |-> p.pin]}
            ELSE {}
  ELSE IF p.code = "permission-denied"
       THEN {[updated |-> Now]}
       ELSE {}

\* the branch the probe's continuation takes
ProbeBranch(p) ==
  IF p.st = "got"
  THEN IF ~p.exists THEN "create"
       ELSE IF p.adminPin = Undefined \/ p.adminPin = "" THEN "claim" ELSE "keep"
  ELSE IF p.code = "permission-denied" THEN "blind" ELSE "skip"

\* the continuation of docRef.get() runs; accepted is whether the store
\* takes the write it issues (a rejected write is only logged)
ProbeThen(d, p, accepted) ==
  /\ p \in probes[d]
  /\ p.st # "pending"
  /\ probes' = [probes EXCEPT ![d] = @ \ {p}]
  /\ settled' = IF unsubscribe[d].active /\ unsubscribe[d].sid = p.sid
                   /\ unsubscribe[d].pin = p.pin
                THEN [settled EXCEPT ![d] = ProbeBranch(p)]
                ELSE settled
  /\ IF ProbeWrite(p) # {} /\ accepted
     THEN /\ doc' = [doc EXCEPT ![p.sid] =
                       SetMerge(@, CHOOSE f \in ProbeWrite(p) : TRUE)]
          /\ fresh' = Notify(p.sid)
     ELSE UNCHANGED <<doc, fresh>>
  /\ UNCHANGED <<variant, binRaw, hierarchy, zoneHierarchy, persist, db,
                 authed, initJob, unsubscribe, pushQ,
                 inventory, cloud, uiVars>>

\* ----------------------------------------------------------- the listener
\* onUpdate merging the snapshot into the map in memory
OnUpdateMerges(inv, c, data, isReadOnly) ==
  [inventory |-> Spread(inv, data), cloud |-> OnUpdateCloud(c, isReadOnly)]

\* onUpdate adding the snapshot's quantities to those in memory
OnUpdateAddsQty(inv, c, data, isReadOnly) ==
  [inventory |-> [p \in DOMAIN data |->
                    IF p \in DOMAIN inv
                    THEN [data[p] EXCEPT !.qty = @ + inv[p].qty]
                    ELSE data[p]],
   cloud |-> OnUpdateCloud(c, isReadOnly)]

\* handleConnect's onUpdate callback: setInventory(data) and setCloud, on
\* the map inv and the CloudState c in memory
OnUpdate(inv, c, data, isReadOnly) ==
  [inventory |-> data, cloud |-> OnUpdateCloud(c, isReadOnly)]

\* the onSnapshot callback runs for the document as it is now
Snapshot(d) ==
  /\ unsubscribe[d].active
  /\ unsubscribe[d].alive
  /\ fresh[d]
  /\ LET r == SnapshotResult(doc[unsubscribe[d].sid], unsubscribe[d].pin)
         u == OnUpdate(inventory[d], cloud[d], r.data, r.isReadOnly) IN
       /\ inventory' = [inventory EXCEPT ![d] = u.inventory]
       /\ persist' = [persist EXCEPT ![d] = PersistenceEffect(@, u.inventory)]
       /\ cloud' = [cloud EXCEPT ![d] = u.cloud]
  /\ fresh' = [fresh EXCEPT ![d] = FALSE]
  /\ UNCHANGED <<variant, binRaw, hierarchy, zoneHierarchy, doc, db, authed,
                 initJob, unsubscribe, probes, settled,
                 pushQ, uiVars>>

WatchErrorMsg(code) ==
  IF code = "permission-denied"
  THEN "Access denied. Database rules restrict this path."
  ELSE "Connection lost. Retrying..."

\* the onSnapshot error callback runs; the store has ended the listener
WatchError(d, code) ==
  /\ unsubscribe[d].active
  /\ unsubscribe[d].alive
  /\ unsubscribe' = [unsubscribe EXCEPT ![d].alive = FALSE]
  /\ fresh' = [fresh EXCEPT ![d] = FALSE]
  /\ cloud' = [cloud EXCEPT ![d] = OnError(@, WatchErrorMsg(code))]
  /\ UNCHANGED <<variant, binRaw, hierarchy, zoneHierarchy, persist, doc, db,
                 authed, initJob, probes, settled, pushQ,
                 inventory, uiVars>>

\* disconnectFirebase calling the handle without clearing it
DisconnectFirebaseKeepsHandle(d) ==
  /\ unsubscribe' = [unsubscribe EXCEPT ![d].alive = FALSE]
  /\ fresh' = [fresh EXCEPT ![d] = FALSE]
  /\ settled' = [settled EXCEPT ![d] = "none"]

\* disconnectFirebase(): with a handle, call it and clear it; without one,
\* nothing
DisconnectFirebase(d) ==
  IF unsubscribe[d].active
  THEN /\ unsubscribe' = [unsubscribe EXCEPT ![d] = NoWatch]
       /\ fresh' = [fresh EXCEPT ![d] = FALSE]
       /\ settled' = [settled EXCEPT ![d] = "none"]
  ELSE UNCHANGED <<unsubscribe, fresh, settled>>

\* -------------------------------------------------------------- pushes
SyncFailed == "Sync Failed"

\* the condition syncToCloud tests on the CloudState c of its closure
WillPush(c) == c.connected /\ c.sessionId # "" /\ ~c.isReadOnly

\* setCloud at the start of syncToCloud, applied to the current CloudState
SyncStart(cur) ==
  IF variant = "main"
  THEN [cur EXCEPT !.syncing = TRUE, !.error = Null]
  ELSE [cur EXCEPT !.syncing = TRUE]

\* SyncEnd without the failure branch
SyncEndIgnoresFailure(cur, success) == [cur EXCEPT !.syncing = FALSE]

\* setCloud once saveToCloud has settled
SyncEnd(cur, success) ==
  IF variant = "main"
  THEN IF success THEN [cur EXCEPT !.syncing = FALSE]
       ELSE [cur EXCEPT !.syncing = FALSE, !.error = SyncFailed]
  ELSE [cur EXCEPT !.syncing = FALSE,
                   !.error = IF success THEN Null ELSE SyncFailed]

\* syncToCloud(newData) as seen from a closure over CloudState c:
\* saveToCloud serializes at once and its update is in flight afterwards;
\* no is the rank of the call among those not yet settled (1 = oldest)
SyncToCloud(d, c, newData) ==
  IF WillPush(c)
  THEN IF db[d]
       THEN /\ Len(pushQ[d]) < MaxPushes
            /\ pushQ' = [pushQ EXCEPT ![d] =
                 Append(@, [sid |-> SafeId(c.sessionId),
                            json |-> JSONstringify(newData),
                            op |-> "update", no |-> Len(@) + 1])]
            /\ cloud' = [cloud EXCEPT ![d] = SyncStart(@)]
       ELSE /\ cloud' = [cloud EXCEPT ![d] = SyncEnd(SyncStart(@), FALSE)]
            /\ UNCHANGED pushQ
  ELSE UNCHANGED <<pushQ, cloud>>

PushOutcomes == {"ok", "update-error", "set-error"}

\* saveToCloud without the fallback to set
SaveToCloudResultNoFallback(dv, push, outcome) ==
  IF dv.exists /\ outcome = "ok"
  THEN [doc |-> [dv EXCEPT !.json = push.json, !.updated = Now],
        success |-> TRUE, fallback |-> FALSE]
  ELSE [doc |-> dv, success |-> FALSE, fallback |-> FALSE]

\* saveToCloud with a fallback that replaces the document (set without merge)
SaveToCloudResultReplaces(dv, push, outcome) ==
  IF push.op = "update"
  THEN IF outcome = "update-error"
       THEN [doc |-> dv, success |-> FALSE, fallback |-> FALSE]
       ELSE IF dv.exists
            THEN IF outcome = "ok"
                 THEN [doc |-> [dv EXCEPT !.json = push.json, !.updated = Now],
                       success |-> TRUE, fallback |-> FALSE]
                 ELSE [doc |-> dv, success |-> FALSE, fallback |-> FALSE]
            ELSE [doc |-> dv, success |-> FALSE, fallback |-> TRUE]
  ELSE IF outcome = "ok"
       THEN [doc |-> [exists |-> TRUE, json |-> push.json, adminPin |-> Undefined,
                      updated |-> Now],
             success |-> TRUE, fallback |-> FALSE]
       ELSE [doc |-> dv, success |-> FALSE, fallback |-> FALSE]

\* the write of a saveToCloud call reaches the store. Its update replaces
\* json and updated of an existing document; on a missing document it is
\* rejected with not-found and the call issues set(..., { merge: true })
\* (fallback), a new write behind those already in flight; any other
\* rejection, of the update or of the set, makes the call return false
SaveToCloudResult(dv, push, outcome) ==
  IF push.op = "update"
  THEN IF outcome = "update-error"
       THEN [doc |-> dv, success |-> FALSE, fallback |-> FALSE]
       ELSE IF dv.exists
            THEN IF outcome = "ok"
                 THEN [doc |-> [dv EXCEPT !.json = push.json, !.updated = Now],
                       success |-> TRUE, fallback |-> FALSE]
                 ELSE [doc |-> dv, success |-> FALSE, fallback |-> FALSE]
            ELSE [doc |-> dv, success |-> FALSE, fallback |-> TRUE]
  ELSE IF outcome = "ok"
       THEN [doc |-> SetMerge(dv, [json |-> push.json, updated |-> Now]),
             success |-> TRUE, fallback |-> FALSE]
       ELSE [doc |-> dv, success |-> FALSE, fallback |-> FALSE]

\* the ranks of the calls still in flight once the call of rank k has settled
Renumber(q, k) ==
  [i \in 1..Len(q) |-> IF q[i].no > k THEN [q[i] EXCEPT !.no = @ - 1] ELSE q[i]]

\* the store answers the oldest write in flight; saveToCloud then issues its
\* fallback, or returns and syncToCloud resumes
PushLand(d, outcome) ==
  /\ pushQ[d] # <<>>
  /\ LET push == Head(pushQ[d])
         r == SaveToCloudResult(doc[push.sid], push, outcome) IN
       /\ doc' = [doc EXCEPT ![push.sid] = r.doc]
       /\ IF r.fallback
          THEN /\ pushQ' = [pushQ EXCEPT
                    ![d] = Append(Tail(@), [push EXCEPT !.op = "set"])]
               /\ UNCHANGED <<fresh, cloud>>
          ELSE /\ pushQ' = [pushQ EXCEPT ![d] = Renumber(Tail(@), push.no)]
               /\ fresh' = IF r.success THEN Notify(push.sid) ELSE fresh
               /\ cloud' = [cloud EXCEPT ![d] = SyncEnd(@, r.success)]
  /\ UNCHANGED <<variant, binRaw, hierarchy, zoneHierarchy, persist, db, authed, initJob,
                 unsubscribe, probes, settled, inventory, uiVars>>

\* ---------------------------------------------------- connect, disconnect
\* the header button while not connected: setShowConnect(true)
OpenConnect(d) ==
  /\ ~cloud[d].connected
  /\ ~showConnect[d]
  /\ showConnect' = [showConnect EXCEPT ![d] = TRUE]
  /\ UNCHANGED <<variant, binRaw, hierarchy, zoneHierarchy, persist, doc,
                 svcVars, pushQ, inventory, cloud, importJob,
                 fileDialog, audit, saved>>

\* handleConnect(sessionId, pin), called by the ConnectModal form
HandleConnect(d, sessionId, pin, sdkOnline) ==
  /\ showConnect[d]
  /\ Cardinality(probes[d]) < MaxProbes
  /\ LET sid == ToUpperCase(sessionId)
         c0 == IF variant = "main"
               THEN [cloud[d] EXCEPT !.sessionId = sid, !.error = Null]
               ELSE [cloud[d] EXCEPT !.sessionId = sid]
     IN SubscribeToSession(d, sid, pin, c0, sdkOnline)
  /\ showConnect' = [showConnect EXCEPT ![d] = FALSE]
  /\ saved' = [saved EXCEPT ![d] = [sid |-> ToUpperCase(sessionId), pin |-> pin]]
  /\ UNCHANGED <<variant, binRaw, hierarchy, zoneHierarchy, persist, doc, pushQ, inventory, importJob, fileDialog, audit>>

\* the header button while connected: handleDisconnect in the main layout,
\* disconnectFirebase alone in the dashboard layout
HandleDisconnect(d) ==
  /\ cloud[d].connected
  /\ DisconnectFirebase(d)
  /\ cloud' = IF variant = "main"
              THEN [cloud EXCEPT ![d] = CloudInit]
              ELSE cloud
  /\ saved' = IF variant = "main"
              THEN [saved EXCEPT ![d] = NoSaved]
              ELSE saved
  /\ UNCHANGED <<variant, binRaw, hierarchy, zoneHierarchy, persist, doc, db,
                 authed, initJob, probes, pushQ, inventory,
                 showConnect, importJob, fileDialog, audit>>

\* ------------------------------------------------------------- mutations
\* setInventory(newInv) followed by syncToCloud(newInv) from closure c
Mutate(d, newInv, c) ==
  /\ inventory' = [inventory EXCEPT ![d] = newInv]
  /\ persist' = [persist EXCEPT ![d] = PersistenceEffect(@, newInv)]
  /\ SyncToCloud(d, c, newInv)

\* what the EditorModal form submits; the form opens on a new item with an
\* empty part and submits without testing it
EditorItems ==
  IF variant = "main"
  THEN {[part |-> "P1", bin |-> "307A", qty |-> 1],
        [part |-> "P2", bin |-> "NG1", qty |-> 2],
        [part |-> "", bin |-> "0", qty |-> 0]}
  ELSE {[part |-> "P1", bin |-> "307A", qty |-> 1, bo |-> 0, description |-> "BOLT"],
        [part |-> "P2", bin |-> "NG1", qty |-> 2, bo |-> 1, description |-> ""],
        [part |-> "", bin |-> "A-01", qty |-> 0, bo |-> 0]}

\* handleSaveItem(item)
HandleSaveItem(d, item) ==
  /\ IF cloud[d].isReadOnly
     THEN UNCHANGED <<inventory, persist, pushQ, cloud>>
     ELSE Mutate(d,
                 Spread(inventory[d],
                        (item.part :> (IF variant = "main" THEN item
                                       ELSE Spread(item, [lastUpdated |-> Now])))),
                 cloud[d])
  /\ UNCHANGED <<variant, binRaw, hierarchy, zoneHierarchy, doc, svcVars, uiVars>>

\* handleDeleteItem(part)
HandleDeleteItem(d, part) ==
  /\ IF cloud[d].isReadOnly
     THEN UNCHANGED <<inventory, persist, pushQ, cloud>>
     ELSE Mutate(d, DeleteKey(inventory[d], part), cloud[d])
  /\ UNCHANGED <<variant, binRaw, hierarchy, zoneHierarchy, doc, svcVars, uiVars>>

\* ------------------------------------------------------------ zone tree
\* a call getBinHierarchy(binRaw) returns
Classify ==
  /\ hierarchy = NotClassified
  /\ hierarchy' = GetBinHierarchy(binRaw)
  /\ UNCHANGED <<variant, binRaw, zoneHierarchy, doc, svcVars, pushQ, inventory,
                 cloud, uiVars, persist>>

\* the main layout renders: the zoneHierarchy memo is recomputed from the
\* inventory
RenderZones(d) ==
  /\ variant = "main"
  /\ zoneHierarchy[d] # ZoneHierarchy(InventoryList(inventory[d]))
  /\ zoneHierarchy' = [zoneHierarchy EXCEPT
                         ![d] = ZoneHierarchy(InventoryList(inventory[d]))]
  /\ UNCHANGED <<variant, binRaw, hierarchy, persist, doc, svcVars, pushQ, inventory,
                 cloud, uiVars>>

\* ----------------------------------------------------------- persistence
\* the timeout of the persistence effect fires:
\* localStorage.setItem('zeevra_v32_data', JSON.stringify(inventory))
PersistFire(d) ==
  /\ persist[d].handler.pending
  /\ persist' = [persist EXCEPT
       ![d] = [handler |-> NoHandler,
               data |-> JSONstringify(persist[d].handler.inventory)]]
  /\ UNCHANGED <<variant, binRaw, hierarchy, zoneHierarchy, doc, svcVars, pushQ, inventory, cloud, uiVars>>

\* ---------------------------------------------------------------- import
\* the item maps the import parsers produce from the files the operator
\* picks; the empty map stands for a file without a valid row
ImportFiles ==
  IF variant = "main"
  THEN {EmptyMap, ("P1" :> [part |-> "P1", bin |-> "0", qty |-> 7])}
  ELSE {EmptyMap,
        ("P1" :> [part |-> "P1", bin |-> "GEN", qty |-> 7, bo |-> 0,
                  description |-> "", lastUpdated |-> Now])}

\* main layout: handleImport, up to reader.readAsText(file)
HandleImport(d) ==
  /\ variant = "main"
  /\ importJob[d].st = "none"
  /\ IF cloud[d].isReadOnly
     THEN UNCHANGED importJob
     ELSE importJob' = [importJob EXCEPT
            ![d] = [st |-> "reading", inv |-> inventory[d], c |-> cloud[d]]]
  /\ UNCHANGED <<variant, binRaw, hierarchy, zoneHierarchy, persist, doc,
                 svcVars, pushQ, inventory, cloud, showConnect,
                 fileDialog, audit, saved>>

\* dashboard layout: handleImportClick opens the file picker
HandleImportClick(d) ==
  /\ variant = "dashboard"
  /\ IF cloud[d].isReadOnly
     THEN UNCHANGED fileDialog
     ELSE fileDialog' = [fileDialog EXCEPT ![d] = TRUE]
  /\ UNCHANGED <<variant, binRaw, hierarchy, zoneHierarchy, persist, doc,
                 svcVars, pushQ, inventory, cloud, showConnect,
                 importJob, audit, saved>>

\* dashboard layout: handleFileChange, up to reader.readAsArrayBuffer(file)
HandleFileChange(d, confirmed) ==
  /\ variant = "dashboard"
  /\ fileDialog[d]
  /\ importJob[d].st = "none"
  /\ fileDialog' = [fileDialog EXCEPT ![d] = FALSE]
  /\ IF confirmed
     THEN importJob' = [importJob EXCEPT
            ![d] = [st |-> "reading", inv |-> EmptyMap, c |-> cloud[d]]]
     ELSE UNCHANGED importJob
  /\ UNCHANGED <<variant, binRaw, hierarchy, zoneHierarchy, persist, doc,
                 svcVars, pushQ, inventory, cloud, showConnect,
                 audit, saved>>

\* the map reader.onload hands to setInventory and syncToCloud
ImportedMap(job, file) ==
  IF variant = "main" THEN Spread(job.inv, file) ELSE file

\* reader.onload, with the inventory and CloudState of the render in which
\* the read was started
ImportOnload(d, file) ==
  /\ importJob[d].st = "reading"
  /\ importJob' = [importJob EXCEPT ![d] = NoImport]
  /\ IF file = EmptyMap
     THEN UNCHANGED <<inventory, persist, pushQ, cloud>>
     ELSE Mutate(d, ImportedMap(importJob[d], file), importJob[d].c)
  /\ UNCHANGED <<variant, binRaw, hierarchy, zoneHierarchy, doc, svcVars, showConnect, fileDialog, audit, saved>>

\* ----------------------------------------------------------------- audit
BinsOf(inv) == {inv[p].bin : p \in DOMAIN inv}

\* AuditView's initial auditList: the items whose bin is in zoneFilter
AuditList(inv, zoneFilter) ==
  [p \in {q \in DOMAIN inv : inv[q].bin \in zoneFilter} |-> inv[p]]

\* main layout: handleAuditStart with selectedBins
HandleAuditStart(d, selectedBins) ==
  /\ variant = "main"
  /\ ~audit[d].on
  /\ IF cloud[d].isReadOnly \/ selectedBins = {}
     THEN UNCHANGED audit
     ELSE audit' = [audit EXCEPT
            ![d] = [on |-> TRUE, list |-> AuditList(inventory[d], selectedBins)]]
  /\ UNCHANGED <<variant, binRaw, hierarchy, zoneHierarchy, persist, doc,
                 svcVars, pushQ, inventory, cloud, showConnect,
                 importJob, fileDialog, saved>>

\* the zone modal: the operator toggles subgroups of the rendered tree and
\* presses START AUDIT
ZoneAuditStart(d) ==
  /\ zoneHierarchy[d] = ZoneHierarchy(InventoryList(inventory[d]))
  /\ \E subs \in SUBSET SubgroupsOf(zoneHierarchy[d]) :
       HandleAuditStart(d, BinsUnder(zoneHierarchy[d], subs))

\* dashboard layout: the START AUDIT card, disabled while read-only
StartAudit(d) ==
  /\ variant = "dashboard"
  /\ ~audit[d].on
  /\ ~cloud[d].isReadOnly
  /\ audit' = [audit EXCEPT ![d] = [on |-> TRUE, list |-> inventory[d]]]
  /\ UNCHANGED <<variant, binRaw, hierarchy, zoneHierarchy, persist, doc,
                 svcVars, pushQ, inventory, cloud, showConnect,
                 importJob, fileDialog, saved>>

\* AuditView onCancel
AuditCancel(d) ==
  /\ audit[d].on
  /\ audit' = [audit EXCEPT ![d] = NoAudit]
  /\ UNCHANGED <<variant, binRaw, hierarchy, zoneHierarchy, persist, doc,
                 svcVars, pushQ, inventory, cloud, showConnect,
                 importJob, fileDialog, saved>>

\* the record handleAuditFinish stores for an audited item marked done
AuditedRecord(prev, i) ==
  IF variant = "main"
  THEN [part |-> i.part, bin |-> i.bin, qty |-> i.qty]
  ELSE Spread(IF i.part \in DOMAIN prev THEN prev[i.part] ELSE EmptyMap,
              [part |-> i.part, bin |-> i.bin, qty |-> i.qty,
               bo |-> IF "bo" \in DOMAIN i THEN i.bo ELSE 0,
               lastUpdated |-> Now])

\* the map handleAuditFinish builds from the auditList and its done marks
AuditMerge(prev, list, done) ==
  [p \in DOMAIN prev \cup done |->
     IF p \in done THEN AuditedRecord(prev, list[p]) ELSE prev[p]]

\* handleAuditFinish(auditedItems)
HandleAuditFinish(d, done) ==
  /\ audit[d].on
  /\ done \subseteq DOMAIN audit[d].list
  /\ IF variant = "dashboard" /\ cloud[d].isReadOnly
     THEN UNCHANGED <<inventory, persist, pushQ, cloud, audit>>
     ELSE /\ Mutate(d, AuditMerge(inventory[d], audit[d].list, done), cloud[d])
          /\ audit' = [audit EXCEPT ![d] = NoAudit]
  /\ UNCHANGED <<variant, binRaw, hierarchy, zoneHierarchy, doc, svcVars, showConnect, importJob, fileDialog, saved>>

\* ------------------------------------------------------- specifications
\* documents the store may hold before any device of this model connects:
\* sessions written by earlier builds (empty adminPin), claimed sessions, and
\* sessions whose json another writer left unparsable
Earlier == "t0"      \* the ISO time of a write made before the run
StoredMap == ("P2" :> [part |-> "P2", bin |-> "NG1", qty |-> 9])

StoredDoc(json, adminPin) ==
  [exists |-> TRUE, json |-> json, adminPin |-> adminPin, updated |-> Earlier]

InitialDocs ==
  {NoDoc}
  \cup {StoredDoc(j, a) : j \in {JSONstringify(StoredMap), JsonGarbage},
                          a \in {"", "1234"}}

\* state after the App component has mounted: empty inventory (INITIAL_DATA),
\* initial CloudState, and the boot effect's initFirebase() either pending
\* (db already set) or already resolved false (device offline, db unset)
InitDevices(online) ==
  /\ variant \in Variants
  /\ db = [d \in Devices |-> d \in online]
  /\ authed = [d \in Devices |-> FALSE]
  /\ initJob = [d \in Devices |-> IF d \in online THEN BootJob ELSE NoJob]
  /\ unsubscribe = [d \in Devices |-> NoWatch]
  /\ fresh = [d \in Devices |-> FALSE]
  /\ probes = [d \in Devices |-> {}]
  /\ pushQ = [d \in Devices |-> <<>>]
  /\ inventory = [d \in Devices |-> EmptyMap]
  /\ cloud = [d \in Devices |-> CloudInit]
  /\ showConnect = [d \in Devices |-> FALSE]
  /\ importJob = [d \in Devices |-> NoImport]
  /\ fileDialog = [d \in Devices |-> FALSE]
  /\ audit = [d \in Devices |-> NoAudit]
  /\ saved = [d \in Devices |-> NoSaved]
  /\ persist = [d \in Devices |->
       [handler |-> [pending |-> TRUE, inventory |-> EmptyMap],
        data |-> JsonAbsent]]
  /\ settled = [d \in Devices |-> "none"]
  /\ zoneHierarchy = [d \in Devices |-> EmptyMap]

\* no bin code is being classified
NoBin ==
  /\ binRaw = <<>>
  /\ hierarchy = NotClassified

InitDocs(docs) ==
  \E d0 \in docs : doc = [id \in DocIds |-> IF id = "S1" THEN d0 ELSE NoDoc]

\* connecting while the adapter, the store and the network all work
JoinStep(d, sessions, pins) ==
  \/ OpenConnect(d)
  \/ \E sessionId \in sessions, pin \in pins : HandleConnect(d, sessionId, pin, TRUE)
  \/ \E p \in probes[d] : ProbeGet(d, p, "")
  \/ \E p \in probes[d] : ProbeThen(d, p, TRUE)

\* the connect protocol of one device, failures included
ConnectStep(d, sessions, pins) ==
  \/ OpenConnect(d)
  \/ \E sessionId \in sessions, pin \in pins, sdkOnline \in BOOLEAN :
       HandleConnect(d, sessionId, pin, sdkOnline)
  \/ \E success \in BOOLEAN : InitResolve(d, success)
  \/ \E p \in probes[d], code \in {""} \cup ProbeCodes : ProbeGet(d, p, code)
  \/ \E p \in probes[d], accepted \in BOOLEAN : ProbeThen(d, p, accepted)
  \/ Snapshot(d)
  \/ \E code \in ProbeCodes : WatchError(d, code)
  \/ HandleDisconnect(d)

\* the editor's mutations
EditStep(d, parts) ==
  \/ \E item \in {i \in EditorItems : i.part \in parts} : HandleSaveItem(d, item)
  \/ \E part \in parts : HandleDeleteItem(d, part)

\* the import of either layout
ImportStep(d) ==
  \/ HandleImport(d)
  \/ HandleImportClick(d)
  \/ \E confirmed \in BOOLEAN : HandleFileChange(d, confirmed)
  \/ \E file \in ImportFiles : ImportOnload(d, file)

\* the audit of either layout
AuditStep(d) ==
  \/ \E bins \in SUBSET BinsOf(inventory[d]) : HandleAuditStart(d, bins)
  \/ StartAudit(d)
  \/ AuditCancel(d)
  \/ \E done \in SUBSET DOMAIN audit[d].list : HandleAuditFinish(d, done)

\* the step leaves at most MaxQueued writes of device d in flight
Queued(d) == Len(pushQ'[d]) <= MaxQueued

\* Spec: one device editing and importing while it joins and leaves a session
Init ==
  /\ InitDevices({"d1"})
  /\ InitDocs({NoDoc, StoredDoc(JSONstringify(StoredMap), "1234")})
  /\ NoBin

Next ==
  \/ JoinStep("d1", {"s1"}, {"1234", "9999"})
  \/ Snapshot("d1")
  \/ HandleDisconnect("d1")
  \/ EditStep("d1", {"P1"}) /\ Queued("d1")
  \/ ImportStep("d1") /\ Queued("d1")
  \/ \E outcome \in PushOutcomes : PushLand("d1", outcome)

Spec == Init /\ [][Next]_vars

\* SpecAudit: one device auditing while it joins and leaves a session
NextAudit ==
  \/ JoinStep("d1", {"s1"}, {"1234", "9999"})
  \/ Snapshot("d1")
  \/ HandleDisconnect("d1")
  \/ EditStep("d1", {"P1"}) /\ Queued("d1")
  \/ AuditStep("d1") /\ Queued("d1")
  \/ \E outcome \in PushOutcomes : PushLand("d1", outcome)

SpecAudit == Init /\ [][NextAudit]_vars

\* SpecMulti: devices d1 and d2 connecting to the same session; d1's
\* listener is followed, d2 only probes and writes
InitMulti ==
  /\ InitDevices({"d1", "d2"})
  /\ InitDocs(InitialDocs)
  /\ NoBin

NextMulti ==
  \/ JoinStep("d1", {"s1"}, {"", "1234"})
  \/ Snapshot("d1")
  \/ HandleDisconnect("d1")
  \/ JoinStep("d2", {"S1"}, {"9999"})

SpecMulti == InitMulti /\ [][NextMulti]_vars

\* SpecConnect: one device connecting to one session, with every failure
\* of the adapter, the store and the network
InitConnect ==
  /\ \E online \in SUBSET {"d1"} : InitDevices(online)
  /\ InitDocs(InitialDocs)
  /\ NoBin

NextConnect == ConnectStep("d1", {"s1"}, {"", "1234"})

SpecConnect == InitConnect /\ [][NextConnect]_vars

\* SpecInit: one device connecting to a new session while initFirebase
\* retries its sign-in; every promise the device awaits settles
NextInit ==
  \/ OpenConnect("d1")
  \/ \E sdkOnline \in BOOLEAN : HandleConnect("d1", "s1", "1234", sdkOnline)
  \/ SignInFail("d1")
  \/ \E success \in BOOLEAN : InitResolve("d1", success)
  \/ \E p \in probes["d1"] : ProbeGet("d1", p, "")
  \/ \E p \in probes["d1"] : ProbeThen("d1", p, TRUE)
  \/ Snapshot("d1")

InitSettles ==
  \/ SignInFail("d1")
  \/ \E success \in BOOLEAN : InitResolve("d1", success)

ProbeSettles ==
  \/ \E p \in probes["d1"] : ProbeGet("d1", p, "")
  \/ \E p \in probes["d1"] : ProbeThen("d1", p, TRUE)

SpecInit ==
  /\ InitConnect
  /\ [][NextInit]_vars
  /\ WF_vars(InitSettles)
  /\ WF_vars(ProbeSettles)

\* SpecRetry: one device connecting to one session with every failure of
\* the adapter, the store and the network; the user keeps retrying, and what
\* the device awaits settles
RetryStep ==
  \/ OpenConnect("d1")
  \/ \E sessionId \in {"s1"}, pin \in {"1234"} : HandleConnect("d1", sessionId, pin, TRUE)

NextRetry == ConnectStep("d1", {"s1"}, {"1234"})

SpecRetry ==
  /\ InitConnect
  /\ [][NextRetry]_vars
  /\ WF_vars(RetryStep)
  /\ WF_vars(InitResolve("d1", TRUE))
  /\ WF_vars(ProbeSettles)
  /\ WF_vars(Snapshot("d1"))

\* SpecZones: one device of the main layout receiving a stored inventory and
\* starting audits from the zone modal
ZoneBins ==
  {<<>>,
   <<"0">>,
   <<"3", "0", "7", "a">>,
   <<"3", "0", "7", "A">>,
   <<"3", "0", "7", "B">>,
   <<"N", "G", "1">>}

ZoneMaps ==
  UNION {{[k \in keys |-> [part |-> k, bin |-> f[k], qty |-> 1]] :
            f \in [keys -> ZoneBins]} : keys \in SUBSET PartSet}

InitZones ==
  /\ InitDevices({"d1"})
  /\ variant = "main"
  /\ InitDocs({StoredDoc(JSONstringify(m), "1234") : m \in ZoneMaps})
  /\ NoBin

NextZones ==
  \/ JoinStep("d1", {"s1"}, {"1234"})
  \/ Snapshot("d1")
  \/ RenderZones("d1")
  \/ ZoneAuditStart("d1")
  \/ AuditCancel("d1")

SpecZones == InitZones /\ [][NextZones]_vars

\* SpecEdit: one admin device editing, its pushes failing or landing
NextEdit ==
  \/ JoinStep("d1", {"s1"}, {"1234"})
  \/ Snapshot("d1")
  \/ EditStep("d1", {"", "P1"}) /\ Queued("d1")
  \/ \E outcome \in PushOutcomes : PushLand("d1", outcome)

SpecEdit == Init /\ [][NextEdit]_vars

\* SpecPush: one admin device saving and deleting one part faster than its
\* pushes settle
NextPush ==
  \/ JoinStep("d1", {"s1"}, {"1234"})
  \/ Snapshot("d1")
  \/ EditStep("d1", {"P1"})
  \/ \E outcome \in PushOutcomes : PushLand("d1", outcome)

SpecPush == Init /\ [][NextPush]_vars

\* SpecCache: one admin device editing while the timeouts of the persistence
\* effect fire
NextCache ==
  \/ JoinStep("d1", {"s1"}, {"1234"})
  \/ Snapshot("d1")
  \/ EditStep("d1", {"", "P1"}) /\ Queued("d1")
  \/ PushLand("d1", "ok")
  \/ PersistFire("d1")

SpecCache == Init /\ [][NextCache]_vars

\* SpecClassify: getBinHierarchy called on one of the bin codes
InitClassify ==
  /\ InitDevices({})
  /\ InitDocs({NoDoc})
  /\ binRaw \in BinInputs
  /\ hierarchy = NotClassified

SpecClassify == InitClassify /\ [][Classify]_vars

\* SpecDescribed: SpecAudit on a session whose records carry the fields the
\* dashboard layout writes (bo, description, lastUpdated)
DescribedMap ==
  ("P2" :> [part |-> "P2", bin |-> "NG1", qty |-> 9, bo |-> 1,
            description |-> "bolt", lastUpdated |-> Earlier])

InitDescribed ==
  /\ InitDevices({"d1"})
  /\ InitDocs({StoredDoc(JSONstringify(DescribedMap), "1234")})
  /\ NoBin

SpecDescribed == InitDescribed /\ [][NextAudit]_vars


\* ================================================================ claims
\* a step of device d through the mutation API: Save, Delete, Import
MutationStep(d) ==
  \/ \E item \in EditorItems : HandleSaveItem(d, item)
  \/ \E part \in PartSet : HandleDeleteItem(d, part)
  \/ HandleImport(d)
  \/ HandleImportClick(d)
  \/ \E confirmed \in BOOLEAN : HandleFileChange(d, confirmed)
  \/ \E file \in ImportFiles : ImportOnload(d, file)

\* a step in which the continuation of probe p of device d runs
ProbeThenStep(d, p) == \E accepted \in BOOLEAN : ProbeThen(d, p, accepted)

\* the document the listener of device d watches
Watched(d) == doc[unsubscribe[d].sid]

IsClaimed(dv) == dv.adminPin # Undefined /\ dv.adminPin # ""

\* C1: while a connection is read-only, no step of the mutation API (Save,
\* Delete, Import, and an import that completes after the connection became
\* read-only) changes the in-memory inventory map or issues a remote write.
C1_ReadOnlyRejectsMutations ==
  [][\A d \in Devices :
       (cloud[d].isReadOnly /\ MutationStep(d))
         => (inventory'[d] = inventory[d] /\ pushQ'[d] = pushQ[d])]_vars

\* C2: a connector whose probe found no document and created it with a
\* non-empty pin is admin: every snapshot its listener then delivers has
\* isReadOnly = FALSE.
C2_CreatorIsAdmin ==
  [][\A d \in Devices :
       (Snapshot(d) /\ settled[d] = "create" /\ unsubscribe[d].pin # "")
         => ~cloud'[d].isReadOnly]_vars

\* C3 as stated: the continuation of the probe of a connect to an existing
\* session whose adminPin is non-empty writes nothing to the remote document
\* (the document is the one the probe was started on: a probe that read an
\* absent or unclaimed document is left to C5).
C3_NoWriteToClaimedSession ==
  [][\A d \in Devices : \A p \in probes[d] :
       (ProbeThenStep(d, p) /\ doc[p.sid].exists /\ IsClaimed(doc[p.sid])
          /\ ~(p.st = "got" /\ (~p.exists \/ ~IsClaimed(p))))
         => doc' = doc]_vars

\* C3 amended: a probe that read an existing document with a non-empty
\* adminPin writes nothing; a probe refused with permission-denied writes
\* only the field updated, leaving adminPin and json as they are; and a
\* snapshot of an existing document whose non-empty adminPin differs from the
\* connector's pin is delivered with isReadOnly = TRUE.
C3_ClaimedSessionKeepsPin ==
  [][\A d \in Devices :
       /\ \A p \in probes[d] :
            /\ (ProbeThenStep(d, p) /\ p.st = "got" /\ p.exists /\ IsClaimed(p))
                 => doc' = doc
            /\ (ProbeThenStep(d, p) /\ p.st = "err")
                 => /\ doc'[p.sid].adminPin = doc[p.sid].adminPin
                    /\ doc'[p.sid].json = doc[p.sid].json
       /\ (Snapshot(d) /\ Watched(d).exists /\ IsClaimed(Watched(d))
             /\ Watched(d).adminPin # unsubscribe[d].pin)
            => cloud'[d].isReadOnly]_vars

\* device d1, connected with the empty pin to the session claimed with
\* "1234", has run its probe (nothing written) and received its snapshot
C3_Witness ==
  /\ settled["d1"] = "keep"
  /\ unsubscribe["d1"].active /\ unsubscribe["d1"].pin = "" /\ ~fresh["d1"]
  /\ doc["S1"] = StoredDoc(JSONstringify(StoredMap), "1234")
  /\ cloud["d1"].connected /\ cloud["d1"].isReadOnly
  /\ inventory["d1"] = StoredMap

C5_AdminPinPermanent ==
  [][\A id \in DocIds :
       (doc[id].exists /\ IsClaimed(doc[id]))
         => doc'[id].adminPin = doc[id].adminPin]_vars

\* C6: every snapshot of an existing document with parseable json is
\* delivered with isReadOnly = (adminPin non-empty and different from the pin
\* the connector supplied).
C6_ReadOnlyFormula ==
  [][\A d \in Devices :
       (Snapshot(d) /\ Watched(d).exists /\ Watched(d).json.t = "obj")
         => /\ cloud'[d].isReadOnly
                 = (IsClaimed(Watched(d))
                      /\ Watched(d).adminPin # unsubscribe[d].pin)
            /\ inventory'[d] = JSONparse(Watched(d).json).val
            /\ cloud'[d].connected]_vars

\* device d1 holds a snapshot of the session claimed with "1234", received
\* on a listener registered with the empty pin
C6_Witness ==
  /\ unsubscribe["d1"].active /\ unsubscribe["d1"].alive
  /\ unsubscribe["d1"].pin = "" /\ ~fresh["d1"]
  /\ doc["S1"].exists /\ doc["S1"].json.t = "obj" /\ doc["S1"].adminPin = "1234"
  /\ cloud["d1"].connected /\ cloud["d1"].isReadOnly
  /\ inventory["d1"] = StoredMap

\* C7: a snapshot of an existing document whose json does not parse is
\* delivered as the empty map with isReadOnly = TRUE, whatever the pin, and
\* through onUpdate: no error is reported.
C7_CorruptionFailsClosed ==
  [][\A d \in Devices :
       (Snapshot(d) /\ Watched(d).exists /\ Watched(d).json.t = "garbage")
         => /\ inventory'[d] = EmptyMap
            /\ cloud'[d].isReadOnly
            /\ cloud'[d].connected
            /\ cloud'[d].error = Null]_vars

\* device d1 holds the snapshot of a corrupt document whose adminPin is the
\* pin it supplied: connected, empty, read-only
C7_Witness ==
  /\ unsubscribe["d1"].active /\ unsubscribe["d1"].alive
  /\ unsubscribe["d1"].pin = "1234" /\ ~fresh["d1"]
  /\ doc["S1"] = StoredDoc(JsonGarbage, "1234")
  /\ cloud["d1"].connected /\ cloud["d1"].isReadOnly
  /\ cloud["d1"].error = Null
  /\ inventory["d1"] = EmptyMap

\* C8: a remote write (saveToCloud) is issued only from a state that is
\* connected, has a session id and is not read-only.
C8_PushOnlyWhenConnectedAdmin ==
  [][\A d \in Devices :
       Len(pushQ'[d]) > Len(pushQ[d]) => WillPush(cloud[d])]_vars

\* C9: while a connection is read-only, finishing an audit changes neither
\* the in-memory inventory map nor the remote document, and issues no write.
C9_ReadOnlyRejectsAudit ==
  [][\A d \in Devices :
       (cloud[d].isReadOnly
          /\ \E done \in SUBSET DOMAIN audit[d].list : HandleAuditFinish(d, done))
         => (inventory'[d] = inventory[d] /\ doc' = doc
               /\ pushQ'[d] = pushQ[d])]_vars

\* C10: the one registered listener of a process is the one of its most
\* recent connect: it watches the session and carries the pin that connect
\* stored.
C10_ListenerOfLatestConnect ==
  \A d \in Devices :
    unsubscribe[d].active
      => /\ unsubscribe[d].sid = SafeId(saved[d].sid)
         /\ unsubscribe[d].pin = saved[d].pin

\* C11: disconnect leaves no listener registered, and a disconnect without a
\* registered listener (the second of two in a row) changes nothing: not the
\* adapter, not the store, not the in-memory map, not the CloudState.
C11_DisconnectIdempotent ==
  [][\A d \in Devices :
       HandleDisconnect(d)
         => /\ unsubscribe'[d] = NoWatch
            /\ ~fresh'[d]
            /\ ~unsubscribe[d].active => UNCHANGED vars]_vars

\* the dashboard layout after its header button disconnected: the button
\* still disconnects (connected stays set) and no listener is registered
C11_Witness ==
  /\ variant = "dashboard"
  /\ cloud["d1"].connected
  /\ unsubscribe["d1"] = NoWatch
  /\ ~fresh["d1"]
  /\ saved["d1"].sid = "S1"

\* C12: between a disconnect and the next connect no listener is registered
\* (so no snapshot callback can run): in the main layout, where
\* handleDisconnect clears the stored session, a device without a stored
\* session has no listener.
C12_NoListenerAfterDisconnect ==
  \A d \in Devices :
    (variant = "main" /\ saved[d] = NoSaved) => ~unsubscribe[d].active

\* the map a snapshot of document dv carries
RemoteMap(dv) ==
  IF dv.exists /\ dv.json.t = "obj" THEN JSONparse(dv.json).val ELSE EmptyMap

\* C13: after a snapshot callback the in-memory map is exactly the map parsed
\* from the snapshot: nothing of the previous map is kept, edits in flight
\* included.
C13_SnapshotReplacesWholesale ==
  [][\A d \in Devices :
       Snapshot(d) => inventory'[d] = RemoteMap(Watched(d))]_vars

\* device d1 holds the remote map while the push of a local edit, which the
\* snapshot removed from memory, is still in flight
C13_Witness ==
  /\ cloud["d1"].connected /\ ~fresh["d1"]
  /\ doc["S1"].exists
  /\ inventory["d1"] = RemoteMap(doc["S1"])
  /\ pushQ["d1"] # <<>>
  /\ pushQ["d1"][1].json # doc["S1"].json

\* C14: delivering the snapshot a second time changes nothing: the callback
\* applied to the state it produced gives that state again (map and
\* CloudState, isReadOnly included).
C14_SnapshotIdempotent ==
  [][\A d \in Devices :
       Snapshot(d)
         => LET r == SnapshotResult(doc'[unsubscribe'[d].sid], unsubscribe'[d].pin)
                u == OnUpdate(inventory'[d], cloud'[d], r.data, r.isReadOnly)
            IN /\ u.inventory = inventory'[d]
               /\ u.cloud = cloud'[d]]_vars

\* device d1 has received the snapshot of a document its own push wrote,
\* with a non-empty map
C14_Witness ==
  /\ cloud["d1"].connected /\ ~fresh["d1"] /\ pushQ["d1"] = <<>>
  /\ doc["S1"].exists /\ doc["S1"].updated = Now
  /\ inventory["d1"] = RemoteMap(doc["S1"])
  /\ "P1" \in DOMAIN inventory["d1"]

\* C15: an import that found rows leaves the in-memory map equal to the
\* imported map: no entry of the previous map that the file lacks is kept.
C15_ImportReplaces ==
  [][\A d \in Devices : \A file \in ImportFiles \ {EmptyMap} :
       ImportOnload(d, file) => inventory'[d] = file]_vars

\* C16: finishing an audit removes no entry, leaves every entry not marked
\* done as it was, and on an entry marked done keeps every field other than
\* bin, qty, bo and the lastUpdated stamp (description among them).
C16_AuditPartialMerge ==
  [][\A d \in Devices : \A done \in SUBSET PartSet :
       HandleAuditFinish(d, done)
         => /\ DOMAIN inventory[d] \subseteq DOMAIN inventory'[d]
            /\ \A p \in DOMAIN inventory[d] \ done :
                 inventory'[d][p] = inventory[d][p]
            /\ \A p \in DOMAIN inventory[d] \cap done :
                 \A f \in DOMAIN inventory[d][p] \ {"bin", "qty", "bo", "lastUpdated"} :
                   /\ f \in DOMAIN inventory'[d][p]
                   /\ inventory'[d][p][f] = inventory[d][p][f]]_vars

\* C17: remove(part) leaves a map without that key and with every other entry
\* as it was; on an absent part it leaves the map as it is, so a second
\* remove changes nothing.
C17_RemoveIdempotent ==
  [][\A d \in Devices : \A part \in PartSet :
       (HandleDeleteItem(d, part) /\ ~cloud[d].isReadOnly)
         => /\ DOMAIN inventory'[d] = DOMAIN inventory[d] \ {part}
            /\ \A q \in DOMAIN inventory'[d] : inventory'[d][q] = inventory[d][q]
            /\ part \notin DOMAIN inventory[d] => inventory'[d] = inventory[d]]_vars

\* dashboard layout, nothing failed and nothing landed since the snapshot:
\* the one push in flight carries the map as the snapshot delivered it, so
\* the remove that issued it found its part absent
C17_Witness ==
  /\ variant = "dashboard"
  /\ cloud["d1"].connected /\ cloud["d1"].error = Null
  /\ doc["S1"] = StoredDoc(JSONstringify(StoredMap), "1234")
  /\ inventory["d1"] = StoredMap
  /\ pushQ["d1"] = <<[sid |-> "S1", json |-> JSONstringify(StoredMap),
                       op |-> "update", no |-> 1]>>

\* C18: no entry is ever stored under the empty key.
C18_NoEmptyPart ==
  \A d \in Devices : "" \notin DOMAIN inventory[d]

\* C19: when a push fails the in-memory map stays as it is, CloudState.error
\* becomes the sync-failure message, syncing ends, and the connection stays
\* as it was (connected, writable).
C19_SyncFailedKeepsEdit ==
  [][\A d \in Devices : \A outcome \in PushOutcomes \ {"ok"} :
       PushLand(d, outcome) /\ Len(pushQ'[d]) < Len(pushQ[d])
         => /\ inventory'[d] = inventory[d]
            /\ cloud'[d].error = SyncFailed
            /\ ~cloud'[d].syncing
            /\ cloud'[d].connected = cloud[d].connected
            /\ cloud'[d].isReadOnly = cloud[d].isReadOnly
            /\ doc' = doc]_vars

\* device d1 after the push of its edit failed: the edit is in memory, not
\* in the store, and the error is shown
C19_Witness ==
  /\ cloud["d1"].connected /\ cloud["d1"].error = SyncFailed
  /\ pushQ["d1"] = <<>>
  /\ "P1" \in DOMAIN inventory["d1"]
  /\ "P1" \notin DOMAIN RemoteMap(doc["S1"])

\* C20: an edit whose push failed stays in memory until a later push carries
\* it to the store: while the failure is the last thing the store answered
\* (error is the sync-failure message) and no other device writes, a snapshot
\* callback does not change the in-memory map of the connected admin.
C20_FailedEditAwaitsPush ==
  [][\A d \in Devices :
       (Snapshot(d) /\ cloud[d].connected /\ ~cloud[d].isReadOnly
          /\ cloud[d].error = SyncFailed)
         => inventory'[d] = inventory[d]]_vars

\* C21: the local cache follows the in-memory map with the last value
\* winning: at any time either a timeout is pending that will write the
\* latest map, or none is pending and the cache holds the serialization of
\* the latest map; so a value superseded before its timeout fired is never
\* written.
C21_CacheLastValueWins ==
  \A d \in Devices :
    IF persist[d].handler.pending
    THEN persist[d].handler.inventory = inventory[d]
    ELSE persist[d].data = JSONstringify(inventory[d])

\* the cache holds a map with two entries and no timeout is pending, while
\* the push of the later entry is still in flight
C21_Witness ==
  /\ ~persist["d1"].handler.pending
  /\ persist["d1"].data = JSONstringify(inventory["d1"])
  /\ DOMAIN inventory["d1"] = {"", "P1"}
  /\ pushQ["d1"] # <<>>

\* device d is left without connection after a failed initialisation: the
\* error callback has reported the network, no listener is registered and
\* connected is false
StaysDisconnected(d) ==
  /\ cloud'[d].error = NetworkUnavailable
  /\ ~cloud'[d].connected
  /\ ~unsubscribe'[d].active

\* C22: a connect that finds the adapter uninitialised (db unset) re-attempts
\* the initialisation; when that succeeds the listener of this connect is
\* registered and its probe started; when it fails, at once or after the
\* sign-in retries, the error callback reports the network, no listener is
\* registered and connected is false.
C22_ConnectReinitialises ==
  [][\A d \in Devices :
       /\ \A sessionId \in SessionInputs, pin \in {"", "1234"} :
            (HandleConnect(d, sessionId, pin, FALSE) /\ ~db[d])
              => StaysDisconnected(d)
       /\ (InitResolve(d, FALSE) /\ initJob[d].kind = "connect")
            => StaysDisconnected(d)
       /\ (InitResolve(d, TRUE) /\ initJob[d].kind = "connect")
            => /\ unsubscribe'[d] = [active |-> TRUE, sid |-> SafeId(initJob[d].sid),
                                     pin |-> initJob[d].pin, alive |-> TRUE]
               /\ Probe(SafeId(initJob[d].sid), initJob[d].pin) \in probes'[d]]_vars

\* device d has no active connection: no listener that can still deliver
Offline(d) == ~(unsubscribe[d].active /\ unsubscribe[d].alive)

\* the step set the in-memory map of d to a map holding (without) the given
\* parts, scheduled its write to the local cache and issued no remote write
AppliedLocally(d, present, absent) ==
  /\ present \subseteq DOMAIN inventory'[d]
  /\ absent \cap DOMAIN inventory'[d] = {}
  /\ persist'[d].handler = [pending |-> TRUE, inventory |-> inventory'[d]]
  /\ pushQ'[d] = pushQ[d]

\* C23: without an active connection (never connected, disconnected, or the
\* listener ended by an error) Save, Delete and a completed import are applied
\* to the in-memory map, scheduled for the local cache, and write nothing to
\* the remote store.
C23_OfflineUsable ==
  [][\A d \in Devices :
       Offline(d) =>
         /\ \A item \in EditorItems :
              HandleSaveItem(d, item) => AppliedLocally(d, {item.part}, {})
         /\ \A part \in PartSet :
              HandleDeleteItem(d, part) => AppliedLocally(d, {}, {part})
         /\ \A file \in ImportFiles \ {EmptyMap} :
              ImportOnload(d, file) => AppliedLocally(d, DOMAIN file, {})]_vars

\* the bin code as the rules see it, and the two tests that come first
Normalized == UpperCaseOf(Trim(binRaw))
IsNoLocation(b) == b \in {<<>>, <<"0">>, Unassigned}
IsZonePrefix(b) == NumericMatch(b) /\ b[1] \in {"2", "3", "6"}

\* C24: getBinHierarchy returns for every bin code, the empty, the blank and
\* the mixed-case ones included: it does not throw, the pair it returns has a
\* group and a subgroup, and another call on the same code returns that pair.
C24_ClassifyTotal ==
  hierarchy # NotClassified
    => /\ ~hierarchy.threw
       /\ hierarchy.group # <<>>
       /\ hierarchy.subgroup # <<>>
       /\ GetBinHierarchy(binRaw) = hierarchy

\* a code of blanks only (space, tab, space) has been classified
C24_Witness ==
  /\ binRaw = <<" ", "\t", " ">>
  /\ hierarchy = Hierarchy(NoLocation, <<"0">>)

\* C25: a code is placed in a numeric group exactly when, normalized, it
\* starts with exactly three digits (no fourth digit follows) of which the
\* first is 2, 3 or 6; the group is then the three digits and the subgroup
\* the three digits plus the uppercase letter that follows them, if one does.
C25_NumericZoneExactlyThreeDigits ==
  hierarchy # NotClassified
    => LET b == Normalized
           exactlyThree == /\ IsZonePrefix(b)
                           /\ (Len(b) >= 4 => b[4] \notin DigitChars)
       IN /\ exactlyThree <=> (NumericMatch(hierarchy.group) /\ Len(hierarchy.group) = 3)
          /\ exactlyThree =>
               /\ hierarchy.group = SubSeq(b, 1, 3)
               /\ hierarchy.subgroup =
                    IF Len(b) >= 4 /\ b[4] \in UpperChars
                    THEN SubSeq(b, 1, 4) ELSE SubSeq(b, 1, 3)

\* C26: the rules apply in the order NO_LOCATION, numeric zone, NG, AREA,
\* DATA_CHECK, MISC, the first match winning: a code starting with NG is
\* (NG, NG1) and a code starting with AREA is (AREAS, text up to the first
\* space) whatever its length and content, and DATA_CHECK or MISC is
\* returned only when none of the four earlier rules matches.
C26_RulePriority ==
  hierarchy # NotClassified
    => LET b == Normalized IN
         /\ IsNoLocation(b) => hierarchy.group = NoLocation
         /\ (~IsNoLocation(b) /\ IsZonePrefix(b)) => hierarchy.group = SubSeq(b, 1, 3)
         /\ StartsWith(b, Ng) => hierarchy = Hierarchy(Ng, Ng1)
         /\ StartsWith(b, AreaPrefix) => hierarchy = Hierarchy(Areas, SplitFirst(b))
         /\ hierarchy.group \in {DataCheck, Misc}
              => /\ ~IsNoLocation(b) /\ ~IsZonePrefix(b)
                 /\ ~StartsWith(b, Ng) /\ ~StartsWith(b, AreaPrefix)
                 /\ hierarchy = IF LooksLikeDescription(b)
                                THEN Hierarchy(DataCheck, BadData)
                                ELSE Hierarchy(Misc, General)

\* "AREA-300 kit", longer than 8 characters, with a space and a word of the
\* description test, has been classified as (AREAS, AREA-300)
C26_Witness ==
  /\ binRaw = <<"A", "R", "E", "A", "-", "3", "0", "0", " ", "k", "i", "t">>
  /\ hierarchy = Hierarchy(Areas, <<"A", "R", "E", "A", "-", "3", "0", "0">>)

\* C27: the code is trimmed and upper-cased before any rule is tried (the
\* result is that of the trimmed, upper-cased code), and a code that is then
\* empty, "0" or "UNASSIGNED" yields (NO_LOCATION, "0").
C27_Normalization ==
  hierarchy # NotClassified
    => /\ hierarchy = GetBinHierarchy(Normalized)
       /\ IsNoLocation(Normalized) => hierarchy = Hierarchy(NoLocation, <<"0">>)

\* " UnAssigned " has been classified as (NO_LOCATION, "0")
C27_Witness ==
  /\ binRaw = <<" ", "U", "n", "A", "s", "s", "i", "g", "n", "e", "d", " ">>
  /\ hierarchy = Hierarchy(NoLocation, <<"0">>)

\* C28: CloudState.syncing tells whether a push is in flight: it is true
\* while a saveToCloud of the device has not settled and false when none is
\* in flight.
C28_SyncingWhilePushInFlight ==
  \A d \in Devices : cloud[d].syncing <=> pushQ[d] # <<>>

\* C29: a push is update-or-create. Its update, if accepted, replaces json
\* and updated of the document and nothing else, and the push reports
\* success. If the update is rejected because the document is missing, the
\* push stays in flight as a merge-create, which, if accepted, creates or
\* merges json and updated and reports success. Any other rejection leaves
\* the store as it was and reports failure to syncToCloud, which resumes.
C29_UpdateOrCreate ==
  [][\A d \in Devices : \A outcome \in PushOutcomes :
       PushLand(d, outcome)
         => LET push == Head(pushQ[d])
                before == doc[push.sid]
                after == doc'[push.sid]
                written == /\ after.exists
                           /\ after.json = push.json
                           /\ after.updated = Now
                           /\ after.adminPin = before.adminPin
                           /\ cloud'[d] = SyncEnd(cloud[d], TRUE)
                           /\ Len(pushQ'[d]) = Len(pushQ[d]) - 1
                failed == /\ doc' = doc
                          /\ cloud'[d] = SyncEnd(cloud[d], FALSE)
                          /\ Len(pushQ'[d]) = Len(pushQ[d]) - 1
            IN CASE push.op = "update" /\ before.exists ->
                      IF outcome = "ok" THEN written ELSE failed
                 [] push.op = "update" /\ ~before.exists ->
                      IF outcome = "update-error"
                      THEN failed
                      ELSE /\ doc' = doc
                           /\ cloud'[d] = cloud[d]
                           /\ pushQ'[d][Len(pushQ[d])]
                                = [push EXCEPT !.op = "set"]
                 [] push.op = "set" ->
                      IF outcome = "ok" THEN written ELSE failed]_vars

\* the session document was created by the fallback of a push: it holds the
\* pushed entry and no adminPin, the probe of the connect not having written
C29_Witness ==
  /\ doc["S1"].exists
  /\ doc["S1"].adminPin = Undefined
  /\ "P1" \in DOMAIN RemoteMap(doc["S1"])
  /\ cloud["d1"].connected
  /\ pushQ["d1"] = <<>>

\* C30: pushes are applied in issue order and none is cancelled: a write
\* that is confirmed belongs to the oldest push in flight (rank 1) and the
\* document takes its json, so that the document ends with the map of the
\* push issued last; a step changes the pushes in flight only by issuing
\* one more or by settling or re-issuing the write the store answers.
C30_PushesInIssueOrder ==
  [][\A d \in Devices :
       /\ PushLand(d, "ok") /\ Len(pushQ'[d]) < Len(pushQ[d])
            => /\ Head(pushQ[d]).no = 1
               /\ doc'[Head(pushQ[d]).sid].json = Head(pushQ[d]).json
       /\ \/ pushQ'[d] = pushQ[d]
          \/ pushQ[d] # <<>> /\ Len(pushQ'[d]) = Len(pushQ[d]) - 1
          \/ pushQ[d] # <<>> /\ Len(pushQ'[d]) = Len(pushQ[d])
               /\ \A i \in 1..Len(pushQ[d]) - 1 : pushQ'[d][i] = pushQ[d][i + 1]
          \/ /\ Len(pushQ'[d]) = Len(pushQ[d]) + 1
             /\ SubSeq(pushQ'[d], 1, Len(pushQ[d])) = pushQ[d]]_vars

\* C31: the sign-in of initFirebase is attempted at most three times: while
\* initFirebase is pending its loop variable is 3, 2 or 1 (at most two
\* attempts have failed and one is in flight), a failed attempt with retries
\* left keeps it pending, the failure of the third resolves it false, a
\* successful attempt resolves it true, and it always resolves.
C31_BoundedSignInRetry ==
  /\ [][\A d \in Devices :
          /\ initJob[d].kind # "none" => initJob[d].retries \in 1..3
          /\ SignInFail(d) => /\ initJob'[d].kind = initJob[d].kind
                              /\ initJob'[d].retries = initJob[d].retries - 1
                              /\ cloud' = cloud /\ authed' = authed
          /\ (initJob[d].kind # "none" /\ initJob[d].retries = 1
                /\ initJob' # initJob)
               => initJob'[d].kind = "none"
          /\ (initJob[d].kind = "boot" /\ InitResolve(d, TRUE)) => authed'[d]
          /\ (initJob[d].kind = "boot" /\ InitResolve(d, FALSE)) => ~authed'[d]
          /\ (initJob[d].kind = "connect" /\ InitResolve(d, TRUE))
               => authed'[d] /\ unsubscribe'[d].active
          /\ (initJob[d].kind = "connect" /\ InitResolve(d, FALSE))
               => cloud'[d].error = NetworkUnavailable]_vars
  /\ \A d \in Devices :
       (initJob[d].kind # "none") ~> (initJob[d].kind = "none")

\* two sign-in attempts of a connect have failed and the third is in flight
C31_Witness ==
  /\ initJob["d1"].kind = "connect"
  /\ initJob["d1"].retries = 1
  /\ ~authed["d1"]

\* C32: when the existence probe failed with permission-denied its
\* continuation merge-writes the updated timestamp alone (json and adminPin
\* stay as they are); a probe that failed otherwise writes nothing; and when
\* the blind write is rejected the store is unchanged, the error is shown in
\* CloudState and the device is not connected.
C32_BlindWriteFallback ==
  [][\A d \in Devices : \A p \in probes[d] : \A accepted \in BOOLEAN :
       (ProbeThen(d, p, accepted) /\ p.st = "err")
         => IF p.code = "permission-denied"
            THEN IF accepted
                 THEN /\ doc'[p.sid].exists
                      /\ doc'[p.sid].updated = Now
                      /\ doc'[p.sid].json = doc[p.sid].json
                      /\ doc'[p.sid].adminPin = doc[p.sid].adminPin
                 ELSE /\ doc' = doc
                      /\ cloud'[d].error # Null
                      /\ ~cloud'[d].connected
            ELSE doc' = doc]_vars

\* a step in which the adapter, the store or the network fails device d
FailureStep(d) ==
  \/ \E sessionId \in SessionInputs, pin \in {"", "1234"} :
       HandleConnect(d, sessionId, pin, FALSE) /\ ~db[d]
  \/ InitResolve(d, FALSE)
  \/ \E p \in probes[d], code \in ProbeCodes : ProbeGet(d, p, code)
  \/ \E p \in probes[d] : ProbeThen(d, p, FALSE) /\ ProbeWrite(p) # {}
  \/ \E code \in ProbeCodes : WatchError(d, code)

\* C33: once the backend is available for good (no step fails any more), a
\* device whose CloudState shows an error and whose user retries the connect
\* eventually is connected with error = null.
C33_ErrorsRecoverable ==
  <>[][~FailureStep("d1")]_vars
    => ((cloud["d1"].error # Null)
          ~> (cloud["d1"].connected /\ cloud["d1"].error = Null))

\* the items of the list whose bin classifies into group g, and into its
\* subgroup k
ItemsInGroup(list, g) ==
  {i \in 1..Len(list) : GetBinHierarchy(list[i].bin).group = g}

ItemsInSubgroup(list, g, k) ==
  {i \in ItemsInGroup(list, g) : GetBinHierarchy(list[i].bin).subgroup = k}

RECURSIVE SumTotalItems(_, _)
SumTotalItems(tree, groups) ==
  IF groups = {} THEN 0
  ELSE LET g == CHOOSE x \in groups : TRUE
       IN tree[g].totalItems + SumTotalItems(tree, groups \ {g})

C39_AuditCoversSelection ==
  [][\A d \in Devices : \A subs \in SUBSET SubgroupsOf(zoneHierarchy[d]) :
       LET selectedBins == BinsUnder(zoneHierarchy[d], subs) IN
         ( /\ zoneHierarchy[d] = ZoneHierarchy(InventoryList(inventory[d]))
           /\ HandleAuditStart(d, selectedBins)
           /\ audit'[d].on )
           => /\ DOMAIN audit'[d].list
                   = {p \in DOMAIN inventory[d] : RawBin(inventory[d][p]) \in selectedBins}
              /\ \A p \in DOMAIN audit'[d].list : audit'[d].list[p] = inventory[d][p]]_vars

\* C35: no step of a push changes the adminPin of any document: the update
\* and the merge-create write json and updated only.
C35_PushKeepsAdminPin ==
  [][\A d \in Devices : \A outcome \in PushOutcomes :
       PushLand(d, outcome)
         => \A id \in DocIds :
              /\ doc'[id].adminPin = doc[id].adminPin
              /\ id # Head(pushQ[d]).sid => doc'[id] = doc[id]]_vars

\* the merge-create of a push has landed on a document the probe had
\* created meanwhile: the document holds the pushed map and the creator's pin
C35_Witness ==
  /\ doc["S1"].exists
  /\ doc["S1"].adminPin = "1234"
  /\ "P1" \in DOMAIN RemoteMap(doc["S1"])
  /\ settled["d1"] = "create"
  /\ pushQ["d1"] = <<>>

\* C36: while no sign-in has succeeded, a connect made after initFirebase
\* has returned false (db set, nothing pending, no user) does not reach the
\* probe or the listener: it leaves both as they were.
C36_NoSubscribeWithoutSignIn ==
  [][\A d \in Devices : \A sessionId \in SessionInputs, pin \in {"", "1234"} :
       \A sdkOnline \in BOOLEAN :
         ( /\ HandleConnect(d, sessionId, pin, sdkOnline)
           /\ db[d] /\ initJob[d].kind = "none" /\ ~authed[d] )
           => /\ unsubscribe'[d] = unsubscribe[d]
              /\ probes'[d] = probes[d]]_vars

\* C37: whenever CloudState.connected is true a live listener is
\* registered, and the header's disconnect and the listener's error callback
\* both leave connected false.
C37_ConnectedImpliesWatch ==
  /\ [](\A d \in Devices :
          cloud[d].connected => unsubscribe[d].active /\ unsubscribe[d].alive)
  /\ [][\A d \in Devices :
          (HandleDisconnect(d) \/ \E code \in ProbeCodes : WatchError(d, code))
            => ~cloud'[d].connected]_vars

\* C38: a snapshot of a document that does not exist reaches onUpdate as the
\* empty map with isReadOnly false: the map in memory becomes empty,
\* whatever it held, and the device is connected and writable.
C38_MissingDocumentEmptiesMap ==
  [][\A d \in Devices :
       (Snapshot(d) /\ ~Watched(d).exists)
         => /\ inventory'[d] = EmptyMap
            /\ cloud'[d].connected
            /\ ~cloud'[d].isReadOnly
            /\ cloud'[d].error = Null]_vars

\* device d1 is connected to a session without a document and its map is
\* empty, while its local cache still holds the item it had before
C38_Witness ==
  /\ cloud["d1"].connected
  /\ ~doc["S1"].exists
  /\ inventory["d1"] = EmptyMap
  /\ persist["d1"].data.t = "obj"
  /\ "P1" \in DOMAIN JSONparse(persist["d1"].data).val

====
